---- MODULE Spec2Model ----
(***************************************************************************)
(* Lead scoring backend: uploadLeads / deleteLead (lead.controller.js),    *)
(* calculateRuleScore / getAIScore / processScores (score.controller.js),  *)
(* over the Lead and Offer collections (models/Lead.js, models/Offer.js).  *)
(*                                                                         *)
(* JavaScript strings are sequences of one-character strings, so that      *)
(* toLowerCase, trim and includes are computed and not assumed.            *)
(*                                                                         *)
(* Storage is MongoDB behind Mongoose.  A multi-document transaction reads *)
(* from the snapshot taken by its first operation, takes no lock on what   *)
(* it reads, and fails a write with WriteConflict when the document was    *)
(* changed after the snapshot or is written by another open transaction;   *)
(* a failed operation aborts the transaction on the server.  The driver's  *)
(* session keeps its own transaction state (txnState).                     *)
(***************************************************************************)
EXTENDS Integers, Sequences, FiniteSets, TLC

\* ------------------------------------------------------------------ bounds
MaxLeads == 2        \* lead documents ever inserted (ObjectIds are never reused)
MaxBatches == 2      \* processScores invocations
MaxRows == 2         \* rows of one uploaded CSV
MaxWords == 2        \* words of one oracle reply

LeadIds == 1..MaxLeads
Batches == 1..MaxBatches

\* ------------------------------------------------------- JavaScript strings
UpperChars == <<"A","B","C","D","E","F","G","H","I","J","K","L","M",
                "N","O","P","Q","R","S","T","U","V","W","X","Y","Z">>
LowerChars == <<"a","b","c","d","e","f","g","h","i","j","k","l","m",
                "n","o","p","q","r","s","t","u","v","w","x","y","z">>

toLowerCaseChar(c) ==
  IF \E k \in DOMAIN UpperChars : UpperChars[k] = c
    THEN LowerChars[CHOOSE k \in DOMAIN UpperChars : UpperChars[k] = c]
    ELSE c

\* String.prototype.toLowerCase
toLowerCase(s) == [i \in 1..Len(s) |-> toLowerCaseChar(s[i])]

\* String.prototype.includes
includes(s, t) ==
  \E i \in 0..(Len(s) - Len(t)) : SubSeq(s, i + 1, i + Len(t)) = t

RECURSIVE trimStart(_)
trimStart(s) == IF s # <<>> /\ Head(s) = " " THEN trimStart(Tail(s)) ELSE s

RECURSIVE trimEnd(_)
trimEnd(s) ==
  IF s # <<>> /\ s[Len(s)] = " " THEN trimEnd(SubSeq(s, 1, Len(s) - 1)) ELSE s

\* String.prototype.trim
trim(s) == trimEnd(trimStart(s))

\* Math.round of n/d for n >= 0, d > 0 (halves round up)
RoundDiv(n, d) == (2 * n + d) \div (2 * d)

\* /^[^\s@]+@[^\s@]+\.[^\s@]+$/
NoSpaceAt(s) == s # <<>> /\ \A i \in 1..Len(s) : s[i] \notin {" ", "@"}
emailRegexTest(s) ==
  \E a \in 1..Len(s) : \E d \in (a + 1)..Len(s) :
    /\ s[a] = "@"
    /\ s[d] = "."
    /\ NoSpaceAt(SubSeq(s, 1, a - 1))
    /\ NoSpaceAt(SubSeq(s, a + 1, d - 1))
    /\ NoSpaceAt(SubSeq(s, d + 1, Len(s)))

\* --------------------------------------------------------------- the offers
S_b2bsaas == <<"B","2","B"," ","S","a","a","S">>

NullOffer == 0
Offers ==
  1 :> [name |-> <<"A","I"," ","O","u","t">>, value_props |-> <<<<"x">>>>,
        ideal_use_cases |-> <<S_b2bsaas>>]
MissingOfferId == 2
OfferIdInputs == DOMAIN Offers \cup {MissingOfferId}

\* Offer.findById: the stored offer's id, or null
OfferFindById(id) == IF id \in DOMAIN Offers THEN id ELSE NullOffer

\* ---------------------------------------------------------------- the leads
\* leadSchema: the paths Mongoose knows (strict mode keeps only these)
LeadSchemaPaths ==
  {"name", "email", "role", "industry", "company", "linkedin", "phone",
   "score", "score_reason", "is_processed"}

S_ceo      == <<"C","E","O">>
S_vp       == <<"V","P">>
S_dev      == <<"D","e","v">>
S_saas     == <<"S","a","a","S">>
S_retail   == <<"R","e","t","a","i","l">>
S_al       == <<"A","l">>
S_bo       == <<"B","o">>
S_acme     == <<"A","c","m","e">>
S_mailA    == <<"a","@","x",".","i","o">>
S_mailAup  == <<"A","@","X",".","i","o">>
S_mailB    == <<"b","@","x",".","i","o">>
S_mailBad  == <<"b","o","@","x">>

\* ------------------------------------------------------ calculateRuleScore
DecisionMakerWords == {<<"c","e","o">>, <<"f","o","u","n","d","e","r">>,
                       <<"o","w","n","e","r">>}
InfluencerWords == {<<"m","a","n","a","g","e","r">>,
                    <<"d","i","r","e","c","t","o","r">>, <<"v","p">>,
                    <<"h","e","a","d"," ","o","f">>}
adjacentKeywords == {<<"t","e","c","h">>, <<"s","a","a","s">>,
                     <<"s","o","f","t","w","a","r","e">>,
                     <<"e","n","t","e","r","p","r","i","s","e">>,
                     <<"s","t","a","r","t","u","p">>,
                     <<"t","e","c","h","n","o","l","o","g","y">>}
requiredFields == <<"name", "email", "role", "company", "industry">>

DecisionMakerPoints == 20
InfluencerPoints == 10
ExactIndustryPoints == 20
AdjacentIndustryPoints == 10
CompletePoints == 10
PartialPoints == 5
MaxRuleScore == 50

Min(a, b) == IF a < b THEN a ELSE b

\* role tested before the decision-maker words
RoleOutcome_influencerFirst(lead) ==
  LET role == toLowerCase(lead.role) IN
  IF \E w \in InfluencerWords : includes(role, w)
    THEN [score |-> InfluencerPoints, reason |-> "Role: Influencer (+10)"]
  ELSE IF \E w \in DecisionMakerWords : includes(role, w)
    THEN [score |-> DecisionMakerPoints, reason |-> "Role: Decision maker (+20)"]
  ELSE IF role # <<>>
    THEN [score |-> 0, reason |-> "Role: No matching role (0)"]
  ELSE [score |-> 0, reason |-> "Role: Not provided (0)"]

\* lines 21-38
RoleOutcome(lead) ==
  LET role == toLowerCase(lead.role) IN
  IF \E w \in DecisionMakerWords : includes(role, w)
    THEN [score |-> DecisionMakerPoints, reason |-> "Role: Decision maker (+20)"]
  ELSE IF \E w \in InfluencerWords : includes(role, w)
    THEN [score |-> InfluencerPoints, reason |-> "Role: Influencer (+10)"]
  ELSE IF role # <<>>
    THEN [score |-> 0, reason |-> "Role: No matching role (0)"]
  ELSE [score |-> 0, reason |-> "Role: Not provided (0)"]

\* containment tested in one direction only
IndustryOutcome_oneWay(lead, offer) ==
  LET industry == toLowerCase(lead.industry)
      ucs == offer.ideal_use_cases
  IN
  IF industry # <<>> /\ Len(ucs) > 0
    THEN IF \E k \in DOMAIN ucs : includes(industry, toLowerCase(ucs[k]))
           THEN [score |-> ExactIndustryPoints,
                 reason |-> "Industry: Exact ICP match (+20)"]
         ELSE IF \E kw \in adjacentKeywords :
                   \/ includes(industry, kw)
                   \/ \E k \in DOMAIN ucs : includes(toLowerCase(ucs[k]), kw)
           THEN [score |-> AdjacentIndustryPoints,
                 reason |-> "Industry: Adjacent industry match (+10)"]
         ELSE [score |-> 0, reason |-> "Industry: No match (0)"]
    ELSE [score |-> 0,
          reason |-> "Industry: Not provided or no ideal use cases defined (0)"]

\* lines 40-72
IndustryOutcome(lead, offer) ==
  LET industry == toLowerCase(lead.industry)
      ucs == offer.ideal_use_cases
      isExactMatch ==
        \E k \in DOMAIN ucs :
          \/ includes(industry, toLowerCase(ucs[k]))
          \/ includes(toLowerCase(ucs[k]), industry)
      isAdjacent ==
        \E kw \in adjacentKeywords :
          \/ includes(industry, kw)
          \/ \E k \in DOMAIN ucs : includes(toLowerCase(ucs[k]), kw)
  IN
  IF industry # <<>> /\ Len(ucs) > 0
    THEN IF isExactMatch
           THEN [score |-> ExactIndustryPoints,
                 reason |-> "Industry: Exact ICP match (+20)"]
         ELSE IF isAdjacent
           THEN [score |-> AdjacentIndustryPoints,
                 reason |-> "Industry: Adjacent industry match (+10)"]
         ELSE [score |-> 0, reason |-> "Industry: No match (0)"]
    ELSE [score |-> 0,
          reason |-> "Industry: Not provided or no ideal use cases defined (0)"]

\* lines 74-86
PartialReasons ==
  <<"Data: Partially complete (1/5 fields, +5)",
    "Data: Partially complete (2/5 fields, +5)",
    "Data: Partially complete (3/5 fields, +5)",
    "Data: Partially complete (4/5 fields, +5)">>

missingFields(lead) ==
  {k \in DOMAIN requiredFields :
     lead[requiredFields[k]] = <<>> \/ trim(lead[requiredFields[k]]) = <<>>}

\* every incomplete lead scored as incomplete
CompletenessOutcome_allOrNothing(lead) ==
  IF missingFields(lead) = {}
    THEN [score |-> CompletePoints, reason |-> "Data: Complete (+10)"]
    ELSE [score |-> 0, reason |-> "Data: Incomplete (0)"]

CompletenessOutcome(lead) ==
  LET missing == Cardinality(missingFields(lead))
      total == Len(requiredFields)
  IN
  IF missing = 0
    THEN [score |-> CompletePoints, reason |-> "Data: Complete (+10)"]
  ELSE IF missing < total
    THEN [score |-> PartialPoints, reason |-> PartialReasons[total - missing]]
  ELSE [score |-> 0, reason |-> "Data: Incomplete (0)"]

\* `industry && offer.ideal_use_cases` dereferences offer: a TypeError when
\* offer is null and the industry is not empty
calculateRuleScoreThrows(lead, offerId) ==
  offerId = NullOffer /\ lead.industry # <<>>

\* lines 17-95 for an offer document that is not null
ruleScoreFor(lead, offer) ==
  LET r == RoleOutcome(lead)
      i == IndustryOutcome(lead, offer)
      c == CompletenessOutcome(lead)
  IN [score |-> Min(r.score + i.score + c.score, MaxRuleScore),
      reason |-> <<r.reason, i.reason, c.reason>>]

\* lines 17-95; offerId names the offer document handed in (with a null offer
\* the call only returns when the industry is empty, and then `&&` has
\* short-circuited before offer is read)
calculateRuleScore(lead, offerId) ==
  ruleScoreFor(lead, IF offerId = NullOffer
                       THEN [ideal_use_cases |-> <<>>] ELSE Offers[offerId])

\* -------------------------------------------------------------- getAIScore
S_high   == <<"H","i","g","h">>
S_medium == <<"m","e","d","i","u","m">>
S_low    == <<"L","o","w">>
\* the replies the oracle gives in the scoring runs (S_medium, S_low are
\* replies too: parseAIText decides them)
OracleTexts == {S_high}
\* generateContent throws or rejects
OracleThrows == <<"#","t","h","r","o","w","s">>
\* generateContent resolves to a result whose response.text() throws
OracleUnusable == <<"#","u","n","u","s","a","b","l","e">>
OracleFailures == {OracleThrows, OracleUnusable}
\* what the oracle can do on one call
OracleOutcomes == OracleTexts \cup OracleFailures

HighScore == 50
MediumScore == 30
LowScore == 10
AIPrefix == "AI Analysis: "
AIUnavailable == "AI analysis unavailable. Default score assigned."

\* the two tests in the other order
parseAIText_mediumFirst(text) ==
  LET t == trim(text) IN
  IF includes(toLowerCase(t), <<"m","e","d","i","u","m">>)
    THEN [score |-> MediumScore, reason |-> <<AIPrefix, t>>]
  ELSE IF includes(toLowerCase(t), <<"h","i","g","h">>)
    THEN [score |-> HighScore, reason |-> <<AIPrefix, t>>]
  ELSE [score |-> LowScore, reason |-> <<AIPrefix, t>>]

\* lines 127-142: the reply's text mapped to a sub-score
parseAIText(text) ==
  LET t == trim(text) IN
  IF includes(toLowerCase(t), <<"h","i","g","h">>)
    THEN [score |-> HighScore, reason |-> <<AIPrefix, t>>]
  ELSE IF includes(toLowerCase(t), <<"m","e","d","i","u","m">>)
    THEN [score |-> MediumScore, reason |-> <<AIPrefix, t>>]
  ELSE [score |-> LowScore, reason |-> <<AIPrefix, t>>]

\* the fallback with the score left at its initial 0
aiFallback_zero == [score |-> 0, reason |-> <<AIUnavailable, <<>>>>]

\* lines 143-150
aiFallback == [score |-> LowScore, reason |-> <<AIUnavailable, <<>>>>]

\* lines 103-151: building the prompt dereferences offer inside the try, so a
\* null offer ends in the catch like a failed oracle call
getAIScore(offerId, outcome) ==
  IF offerId = NullOffer \/ outcome \in OracleFailures
    THEN aiFallback
    ELSE parseAIText(outcome)

\* the mean cut to an integer instead of rounded
finalScoreOf_floor(ruleScore, aiScore) == (ruleScore + aiScore) \div 2

\* the weights written without their decimal point
finalScoreOf_unscaled(ruleScore, aiScore) == ruleScore * 5 + aiScore * 5

\* the sum of the two sub-scores (README.md, "Final Score")
finalScoreOf_sum(ruleScore, aiScore) == ruleScore + aiScore

\* line 205: Math.round(ruleScore.score * 0.5 + aiScore.score * 0.5)
finalScoreOf(ruleScore, aiScore) == RoundDiv(ruleScore + aiScore, 2)

\* line 209: `Rule-based: ${ruleScore.reason} | AI: ${aiScore.reason}`
combinedReasonOf(ruleReason, aiReason) ==
  <<"Rule-based: ", ruleReason, " | AI: ", aiReason>>

\* ------------------------------------------------------------------- state
VARIABLES
  Lead,        \* the committed Lead collection: _id -> document
  nextId,      \* the next fresh _id
  proc,        \* per processScores invocation: its locals and its session
  response     \* the response the last step handed to a caller (res.json / next), if any

vars == <<Lead, nextId, proc, response>>

Restrict(f, S) == [x \in S |-> f[x]]
NoDocs == Restrict(<<>>, {})

\* a JavaScript object: source overlaid by the fields of patch
Assign(source, patch) ==
  [f \in DOMAIN source \cup DOMAIN patch |->
     IF f \in DOMAIN patch THEN patch[f] ELSE source[f]]

NoResponse == [op |-> "none"]

\* the locals of an invocation that has not started or has returned
IdleProc ==
  [pc |-> "idle", offerId |-> NullOffer, limit |-> 0, offer |-> NullOffer,
   snapshot |-> NoDocs, leads |-> <<>>, i |-> 1,
   aiScore |-> aiFallback, ruleScore |-> [score |-> 0, reason |-> <<>>],
   oracle |-> <<>>, totalScore |-> 0, processedLeads |-> <<>>, logged |-> <<>>,
   txnState |-> "NO_TRANSACTION", serverTxn |-> "none", writes |-> NoDocs,
   sessionEnded |-> FALSE, error |-> "", ruleCalls |-> 0, aiCalls |-> 0]

\* what is left of an invocation once the handler has returned or rejected
Returned(p, pc) ==
  [IdleProc EXCEPT !.pc = pc, !.txnState = p.txnState,
                   !.serverTxn = p.serverTxn, !.sessionEnded = p.sessionEnded]

Init ==
  /\ Lead = NoDocs
  /\ nextId = 1
  /\ proc = [b \in Batches |-> IdleProc]
  /\ response = NoResponse

\* ------------------------------------------------------------ uploadLeads
RowAl  == [name |-> S_al, email |-> S_mailAup, role |-> S_ceo,
           industry |-> S_saas, company |-> S_acme,
           linkedin |-> <<>>, phone |-> <<>>]
RowBo  == [name |-> S_bo, email |-> S_mailB, role |-> S_dev,
           industry |-> S_retail, company |-> <<>>,
           linkedin |-> <<>>, phone |-> <<>>]
RowAl2 == [RowAl EXCEPT !.email = S_mailA, !.role = S_vp]
RowBadEmail == [RowBo EXCEPT !.email = S_mailBad]
RowNoRole == [RowBo EXCEPT !.role = <<>>]
RowSamples == {RowAl, RowBo, RowAl2, RowBadEmail, RowNoRole}

\* the parsed records of one CSV, in stream order
CsvInputs == UNION {[1..n -> RowSamples] : n \in 0..MaxRows}

\* record[f] as lines 41 and 66-68 use it: under ! and under || '' a column
\* the CSV does not have (undefined) reads as the empty string does
FieldOrEmpty(record, f) == IF f \in DOMAIN record THEN record[f] ELSE <<>>

\* line 41
MissingRequired(record) ==
  \/ FieldOrEmpty(record, "name") = <<>>
  \/ FieldOrEmpty(record, "email") = <<>>
  \/ FieldOrEmpty(record, "role") = <<>>
  \/ FieldOrEmpty(record, "industry") = <<>>

\* the e-mail tested before the required fields
RowError_emailFirst(record) ==
  IF ~emailRegexTest(FieldOrEmpty(record, "email")) THEN "Invalid email format"
  ELSE IF MissingRequired(record) THEN "Missing required fields"
  ELSE ""

\* lines 40-59: the rejection of a record, "" when it is accepted
RowError(record) ==
  IF MissingRequired(record) THEN "Missing required fields"
  ELSE IF ~emailRegexTest(record.email) THEN "Invalid email format"
  ELSE ""

\* lines 61-71
CanonicalLead(record) ==
  [name |-> record.name, email |-> toLowerCase(record.email),
   role |-> record.role, industry |-> record.industry,
   company |-> FieldOrEmpty(record, "company"),
   linkedin |-> FieldOrEmpty(record, "linkedin"),
   phone |-> FieldOrEmpty(record, "phone"),
   score |-> 0, score_reason |-> <<>>]

\* leadSchema defaults and setters applied by insertMany to one document
NewLeadDoc(result) ==
  Assign([is_processed |-> FALSE],
         [f \in DOMAIN result |->
            IF f = "score" THEN result[f]
            ELSE IF f = "email" THEN toLowerCase(trim(result[f]))
            ELSE trim(result[f])])

\* lines 35-73: results and errors after the parser has read every record
RECURSIVE ParseRows(_, _, _)
ParseRows(csv, k, acc) ==
  IF k > Len(csv) THEN acc
  ELSE LET e == RowError(csv[k]) IN
       ParseRows(csv, k + 1,
         IF e = ""
           THEN [acc EXCEPT !.results = Append(@, CanonicalLead(csv[k])),
                            !.rowCount = k]
           ELSE [acc EXCEPT !.errors = Append(@, [row |-> k, message |-> e]),
                            !.rowCount = k])

Parsed ==
  [csv \in CsvInputs |->
     ParseRows(csv, 1, [results |-> <<>>, errors |-> <<>>, rowCount |-> 0])]

Emails(store) == {store[id].email : id \in DOMAIN store}

\* Lead.insertMany(results, {ordered: false}) against the unique email
\* index: every document that does not collide is inserted, the others are
\* write errors
RECURSIVE InsertMany(_, _, _)
InsertMany(docs, k, acc) ==
  IF k > Len(docs) THEN acc
  ELSE LET d == NewLeadDoc(docs[k]) IN
       InsertMany(docs, k + 1,
         IF d.email \in Emails(acc.store)
           THEN [acc EXCEPT !.writeErrors = @ + 1]
           ELSE [acc EXCEPT
                   !.store = Assign(@, (acc.next :> d)),
                   !.next = @ + 1])

\* what req.file can be when the handler runs: absent, the object
\* routes/lead.routes.js builds ({path, originalname, mimetype, size}: no
\* buffer), or an object that carries the file's bytes in buffer
ReqFiles == {"absent", "path", "buffer"}

\* lines 12-111.  streamOk: whether the parser gets to 'end'; when it emits
\* 'error' the listener of line 76 throws inside the emit, outside every
\* promise: an uncaught exception, and no response
uploadLeads(reqFile, streamOk, csv) ==
  LET parsed == Parsed[csv]
      ins == InsertMany(parsed.results, 1,
                        [store |-> Lead, next |-> nextId, writeErrors |-> 0])
  IN
  IF reqFile = "absent"
    THEN \* line 15
         /\ response' = [op |-> "uploadLeads", status |-> "error",
                         error |-> "BadRequestError"]
         /\ UNCHANGED <<Lead, nextId>>
  ELSE IF reqFile = "path"
    THEN \* req.file.buffer.toString(): TypeError, line 23
         /\ response' = [op |-> "uploadLeads", status |-> "error",
                         error |-> "TypeError"]
         /\ UNCHANGED <<Lead, nextId>>
  ELSE IF ~streamOk
    THEN /\ response' = [op |-> "uploadLeads", status |-> "uncaught",
                         error |-> "BadRequestError"]
         /\ UNCHANGED <<Lead, nextId>>
    ELSE /\ ins.next <= MaxLeads + 1
         /\ Lead' = ins.store
         /\ nextId' = ins.next
         /\ response' =
              IF ins.writeErrors > 0
                THEN \* insertMany rejects with the bulk write error
                     [op |-> "uploadLeads", status |-> "error",
                      error |-> "MongoBulkWriteError"]
                ELSE \* insertMany resolves to the inserted documents, an
                     \* array: its insertedCount is undefined
                     [op |-> "uploadLeads", status |-> "success",
                      totalRows |-> parsed.rowCount,
                      insertedDefined |-> (Len(parsed.results) = 0),
                      inserted |-> 0,
                      errors |-> Len(parsed.errors),
                      errorDetails |-> parsed.errors]

\* the uploads that fill the collection the batches run on
SeedCsvs == {<<RowAl>>, <<RowBo>>, <<RowAl, RowBo>>}

\* the handler as routes/lead.routes.js calls it (req.file without a buffer)
\* and as its own code expects to be called (req.file.buffer holds the bytes)
UploadLeads ==
  /\ \E reqFile \in {"path", "buffer"}, csv \in SeedCsvs :
       uploadLeads(reqFile, TRUE, csv)
  /\ UNCHANGED proc

\* ------------------------------------------------------------- deleteLead
OpenWriters(id) ==
  {b \in Batches : proc[b].serverTxn = "open" /\ id \in DOMAIN proc[b].writes}

\* lines 179-196; a delete outside a transaction waits for an open
\* transaction that has written the document
deleteLead(id) ==
  /\ OpenWriters(id) = {}
  /\ IF id \in DOMAIN Lead
       THEN /\ Lead' = Restrict(Lead, DOMAIN Lead \ {id})
            /\ response' = [op |-> "deleteLead", status |-> "success"]
       ELSE /\ Lead' = Lead
            /\ response' = [op |-> "deleteLead", status |-> "error",
                            error |-> "NotFoundError"]
  /\ UNCHANGED <<nextId, proc>>

DeleteLead == \E id \in LeadIds : deleteLead(id)

\* ------------------------------------------------ POST /api/leads/upload
S_fileCsv == <<"a",".","c","s","v">>
S_filePdf == <<"a",".","p","d","f">>
S_dotCsv  == <<".","c","s","v">>

\* String.prototype.endsWith
endsWith(s, t) ==
  Len(s) >= Len(t) /\ SubSeq(s, Len(s) - Len(t) + 1, Len(s)) = t

\* the MIME types the check of the route names
CsvMimeTypes == {"text/csv", "application/vnd.ms-excel"}
MimeTypes == CsvMimeTypes \cup {"application/pdf"}

\* a request: req.files is empty ("none"), has a file under another field
\* ("other") or has req.files.file ("file") with its declared type and name;
\* csv and streamOk are what its bytes parse to
UploadRequests ==
  [files : {"none", "other", "file"}, mimetype : MimeTypes,
   name : {S_fileCsv, S_filePdf}, streamOk : BOOLEAN, csv : CsvInputs]

\* lines 39-41
isCSV(file) ==
  \/ file.mimetype = "text/csv"
  \/ file.mimetype = "application/vnd.ms-excel"
  \/ endsWith(file.name, S_dotCsv)

\* lines 26-48: the message of the error handed to next, "" when the request
\* goes on to the handler
validateFileUpload(req) ==
  IF req.files = "none" THEN "No files were uploaded"
  ELSE IF req.files = "other" THEN "No file was uploaded"
  ELSE IF ~isCSV(req) THEN "Only CSV files are allowed"
  ELSE ""

\* lines 55-106.  moved: whether file.mv stores the file
postUpload(req) ==
  LET refusal == validateFileUpload(req) IN
  IF refusal # ""
    THEN /\ response' = [op |-> "validateFileUpload", status |-> "error",
                         error |-> "BadRequestError", message |-> refusal]
         /\ UNCHANGED <<Lead, nextId>>
    ELSE \E moved \in BOOLEAN :
           IF ~moved
             THEN /\ response' =
                       [op |-> "upload", status |-> "error",
                        error |-> "BadRequestError",
                        message |-> "File upload failed: Error saving file"]
                  /\ UNCHANGED <<Lead, nextId>>
             ELSE \* lines 83-92: req.file = {path, originalname, mimetype, size}
                  uploadLeads("path", req.streamOk, req.csv)

PostUpload ==
  /\ \E req \in UploadRequests : postUpload(req)
  /\ UNCHANGED proc

\* the handler called with any req.file and any file content
UploadLeadsAny ==
  /\ \E reqFile \in ReqFiles, streamOk \in BOOLEAN, csv \in CsvInputs :
       uploadLeads(reqFile, streamOk, csv)
  /\ UNCHANGED proc

NextUpload == PostUpload \/ UploadLeadsAny \/ DeleteLead

SpecUpload == Init /\ [][NextUpload]_vars

\* ---------------------------------------------------------- processScores
DefaultLimit == 100
LimitInputs == {1, DefaultLimit}
\* what new Date() can read
ClockReadings == {1, 2}

RECURSIVE SortedIds(_)
\* the ids of S in _id (insertion) order
SortedIds(S) ==
  IF S = {} THEN <<>>
  ELSE LET m == CHOOSE x \in S : \A y \in S : x <= y
       IN <<m>> \o SortedIds(S \ {m})

Take(q, n) == SubSeq(q, 1, Min(n, Len(q)))

Ids(q) == {q[k]._id : k \in DOMAIN q}

\* a find() without the filter
Unprocessed_any(doc) == TRUE

\* line 172: the filter {is_processed: false}
Unprocessed(doc) == doc.is_processed = FALSE

\* lines 172-175: Lead.find({is_processed: false}).limit(limit).session(session).lean()
\* reads the transaction's snapshot, and locks nothing
FindUnprocessed(snapshot, limit) ==
  LET ids == Take(SortedIds({id \in DOMAIN snapshot : Unprocessed(snapshot[id])}), limit)
  IN [k \in DOMAIN ids |-> [_id |-> ids[k], doc |-> snapshot[ids[k]]]]

\* the null check left out
OfferMissing_never(offer) == FALSE

\* line 167: if (!offer)
OfferMissing(offer) == offer = NullOffer

\* strict mode: a $set on a path the schema does not declare is dropped
castUpdate(set) == Restrict(set, DOMAIN set \cap LeadSchemaPaths)

\* lines 238-240, in hundredths
averageScoreOf(totalScore, n) ==
  IF n > 0 THEN RoundDiv(totalScore * 100, n) ELSE 0

\* lines 181-189
EmptyResult(b, offerId) ==
  [op |-> "processScores", b |-> b, offerId |-> offerId, status |-> "success",
   message |-> "No unprocessed leads found",
   processed |-> 0, totalScore |-> 0, averageScore |-> 0]

\* lines 244-253
BatchResult(b, offerId, processedLeads, totalScore) ==
  [op |-> "processScores", b |-> b, offerId |-> offerId, status |-> "success",
   message |-> "leads processed successfully",
   processed |-> Len(processedLeads), totalScore |-> totalScore,
   averageScore |-> averageScoreOf(totalScore, Len(processedLeads)),
   leadIds |-> [k \in DOMAIN processedLeads |-> processedLeads[k]._id]]

\* line 258: next(error)
ErrorResult(b, offerId, error) ==
  [op |-> "processScores", b |-> b, offerId |-> offerId, status |-> "error",
   error |-> error]

\* the write of the transaction of b to a selected lead cannot be applied:
\* the document changed (or went) after the snapshot, or another open
\* transaction has written it
WriteConflict(b, lead) ==
  \/ lead._id \notin DOMAIN Lead
  \/ Lead[lead._id] # lead.doc
  \/ OpenWriters(lead._id) \ {b} # {}

\* lines 158-163
Start(b) ==
  /\ proc[b].pc = "idle"
  /\ \E offerId \in OfferIdInputs, limit \in LimitInputs :
       proc' = [proc EXCEPT ![b] =
                  [@ EXCEPT !.pc = "lookup", !.offerId = offerId,
                            !.limit = limit,
                            !.txnState = "STARTING_TRANSACTION"]]
  /\ response' = NoResponse
  /\ UNCHANGED <<Lead, nextId>>

\* lines 165-169: the first operation of the transaction fixes its snapshot
LookupOffer(b) ==
  LET offer == OfferFindById(proc[b].offerId) IN
  /\ proc[b].pc = "lookup"
  /\ proc' = [proc EXCEPT ![b] =
       [@ EXCEPT !.offer = offer,
                 !.snapshot = Lead,
                 !.txnState = "TRANSACTION_IN_PROGRESS",
                 !.serverTxn = "open",
                 !.error = IF OfferMissing(offer) THEN "NotFoundError" ELSE "",
                 !.pc = IF OfferMissing(offer) THEN "catch" ELSE "find"]]
  /\ response' = NoResponse
  /\ UNCHANGED <<Lead, nextId>>

\* lines 171-190
FindLeads(b) ==
  LET p == proc[b]
      leads == FindUnprocessed(p.snapshot, p.limit)
  IN
  /\ p.pc = "find"
  /\ IF Len(leads) = 0
       THEN /\ proc' = [proc EXCEPT ![b] =
                 Returned([p EXCEPT !.txnState = "TRANSACTION_ABORTED",
                                    !.serverTxn = "aborted",
                                    !.sessionEnded = TRUE], "done")]
            /\ response' = EmptyResult(b, p.offerId)
       ELSE /\ proc' = [proc EXCEPT ![b] =
                 [@ EXCEPT !.leads = leads, !.snapshot = NoDocs,
                           !.limit = 0, !.i = 1, !.pc = "score"]]
            /\ response' = NoResponse
  /\ UNCHANGED <<Lead, nextId>>

\* where the loop goes after the lead at index i
AfterLead(p) == IF p.i = Len(p.leads) THEN "commit" ELSE "score"

\* ruleScore, aiScore go out of scope at the end of the loop body
EndIteration(p) ==
  [p EXCEPT !.ruleScore = IdleProc.ruleScore, !.aiScore = IdleProc.aiScore,
            !.oracle = IdleProc.oracle]

\* the oracle asked a second time when its first call fails
ScoreLead_retry(b) ==
  LET p == proc[b]
      lead == p.leads[p.i].doc
  IN
  /\ p.pc = "score"
  /\ IF calculateRuleScoreThrows(lead, p.offer)
       THEN proc' = [proc EXCEPT ![b] =
              [@ EXCEPT !.ruleCalls = @ + 1,
                        !.logged = Append(@, p.leads[p.i]._id),
                        !.i = @ + 1, !.pc = AfterLead(p)]]
       ELSE \E outcome \in OracleOutcomes, again \in OracleOutcomes :
              LET last == IF outcome \in OracleFailures THEN again ELSE outcome
              IN
              proc' = [proc EXCEPT ![b] =
                [@ EXCEPT !.ruleCalls = @ + 1,
                          !.aiCalls =
                            IF outcome \in OracleFailures THEN @ + 2 ELSE @ + 1,
                          !.ruleScore = calculateRuleScore(lead, p.offer),
                          !.oracle = last,
                          !.aiScore = getAIScore(p.offer, last),
                          !.pc = "update"]]
  /\ response' = NoResponse
  /\ UNCHANGED <<Lead, nextId>>

\* lines 196-202 (and 227-230 when the rule scorer throws)
ScoreLead(b) ==
  LET p == proc[b]
      lead == p.leads[p.i].doc
  IN
  /\ p.pc = "score"
  /\ IF calculateRuleScoreThrows(lead, p.offer)
       THEN proc' = [proc EXCEPT ![b] =
              [@ EXCEPT !.ruleCalls = @ + 1,
                        !.logged = Append(@, p.leads[p.i]._id),
                        !.i = @ + 1, !.pc = AfterLead(p)]]
       ELSE \E outcome \in OracleOutcomes :
              proc' = [proc EXCEPT ![b] =
                [@ EXCEPT !.ruleCalls = @ + 1, !.aiCalls = @ + 1,
                          !.ruleScore = calculateRuleScore(lead, p.offer),
                          !.oracle = outcome,
                          !.aiScore = getAIScore(p.offer, outcome),
                          !.pc = "update"]]
  /\ response' = NoResponse
  /\ UNCHANGED <<Lead, nextId>>

\* lines 204-230.  reached: whether the update gets to the server at all
\* (the driver can reject it before, e.g. when no connection is to be had);
\* a server-side failure aborts the transaction, a client-side one does not
UpdateLead(b) ==
  LET p == proc[b]
      lead == p.leads[p.i]
      finalScore == finalScoreOf(p.ruleScore.score, p.aiScore.score)
  IN
  /\ p.pc = "update"
  /\ \E date \in ClockReadings, reached \in BOOLEAN :
       LET set == [is_processed |-> TRUE, score |-> finalScore,
                   score_reason |->
                     combinedReasonOf(p.ruleScore.reason, p.aiScore.reason),
                   processed_at |-> date, offer |-> p.offer]
           updatedLead ==
             [_id |-> lead._id, doc |-> Assign(lead.doc, castUpdate(set))]
           failed == [p EXCEPT !.totalScore = @ + finalScore,
                               !.logged = Append(@, lead._id),
                               !.i = @ + 1, !.pc = AfterLead(p)]
       IN
       proc' = [proc EXCEPT ![b] = EndIteration(
         IF ~reached
           THEN failed
         ELSE IF p.serverTxn # "open"
           THEN \* NoSuchTransaction: an earlier failed write aborted it
                failed
         ELSE IF WriteConflict(b, lead)
           THEN [failed EXCEPT !.serverTxn = "aborted", !.writes = NoDocs]
         ELSE [p EXCEPT !.totalScore = @ + finalScore,
                        !.writes = Assign(@, (lead._id :> updatedLead.doc)),
                        !.processedLeads = Append(@, updatedLead),
                        !.i = @ + 1, !.pc = AfterLead(p)])]
  /\ response' = NoResponse
  /\ UNCHANGED <<Lead, nextId>>

\* the commit applied, and the lines after it (237-253) failing into
\* next(error)
CommitTransaction_thenError(b) ==
  LET p == proc[b] IN
  /\ p.pc = "commit"
  /\ \E storageOk \in BOOLEAN :
       IF p.serverTxn = "open" /\ storageOk
         THEN /\ Lead' = Assign(Lead, p.writes)
              /\ proc' = [proc EXCEPT ![b] =
                   Returned([p EXCEPT !.serverTxn = "committed",
                                      !.txnState = "TRANSACTION_COMMITTED",
                                      !.sessionEnded = TRUE], "done")]
              /\ response' = ErrorResult(b, p.offerId, "TypeError")
         ELSE /\ Lead' = Lead
              /\ proc' = [proc EXCEPT ![b] =
                   [@ EXCEPT !.serverTxn = "aborted", !.writes = NoDocs,
                             !.txnState = "TRANSACTION_COMMITTED",
                             !.error = "CommitError",
                             !.pc = "catch"]]
              /\ response' = NoResponse
  /\ UNCHANGED nextId

\* lines 233-253.  storageOk: whether the storage accepts the commit
CommitTransaction(b) ==
  LET p == proc[b] IN
  /\ p.pc = "commit"
  /\ \E storageOk \in BOOLEAN :
       IF p.serverTxn = "open" /\ storageOk
         THEN /\ Lead' = Assign(Lead, p.writes)
              /\ proc' = [proc EXCEPT ![b] =
                   Returned([p EXCEPT !.serverTxn = "committed",
                                      !.txnState = "TRANSACTION_COMMITTED",
                                      !.sessionEnded = TRUE], "done")]
              /\ response' =
                   BatchResult(b, p.offerId, p.processedLeads, p.totalScore)
         ELSE /\ Lead' = Lead
              /\ proc' = [proc EXCEPT ![b] =
                   [@ EXCEPT !.serverTxn = "aborted", !.writes = NoDocs,
                             !.txnState = "TRANSACTION_COMMITTED",
                             !.error = "CommitError",
                             !.pc = "catch"]]
              /\ response' = NoResponse
  /\ UNCHANGED nextId

\* lines 254-259.  session.abortTransaction() rejects once commitTransaction
\* has been called on the session ("Cannot call abortTransaction after
\* calling commitTransaction"): the handler's promise then rejects before
\* endSession and next(error)
CatchError(b) ==
  LET p == proc[b] IN
  /\ p.pc = "catch"
  /\ IF p.txnState = "TRANSACTION_COMMITTED"
       THEN /\ proc' = [proc EXCEPT ![b] = Returned(p, "rejected")]
            /\ response' = NoResponse
       ELSE /\ proc' = [proc EXCEPT ![b] =
                 Returned([p EXCEPT !.txnState = "TRANSACTION_ABORTED",
                                    !.serverTxn = "aborted",
                                    !.sessionEnded = TRUE], "done")]
            /\ response' = ErrorResult(b, p.offerId, p.error)
  /\ UNCHANGED <<Lead, nextId>>

processScores(b) ==
  \/ Start(b)
  \/ LookupOffer(b)
  \/ FindLeads(b)
  \/ ScoreLead(b)
  \/ UpdateLead(b)
  \/ CommitTransaction(b)
  \/ CatchError(b)

ProcessScores == \E b \in Batches : processScores(b)

Next == UploadLeads \/ DeleteLead \/ ProcessScores

Spec == Init /\ [][Next]_vars

\* ------------------------------------------------------- getScoringSummary
MaxSummaryLeads == 3
\* scores of processed leads: around the bucket limits of lines 284-293
ScoreSamples == {20, 39, 40, 45, 69, 70, 80}
\* the unique email of the k-th stored lead
SummaryEmail(k) == <<LowerChars[k], "@", "x", ".", "i", "o">>

\* what the summary reads of one stored lead
ScoreStates ==
  {[is_processed |-> FALSE, score |-> 0]}
    \cup [is_processed : {TRUE}, score : ScoreSamples]

\* a stored lead in the given score state
SummaryLead(k, st) ==
  [NewLeadDoc(CanonicalLead(RowBo)) EXCEPT
     !.email = SummaryEmail(k), !.is_processed = st.is_processed,
     !.score = st.score]

\* the collections the summary is taken of
SummaryStores ==
  {[k \in DOMAIN f |-> SummaryLead(k, f[k])] :
     f \in UNION {[1..n -> ScoreStates] : n \in 0..MaxSummaryLeads}}

InitSummary ==
  /\ Lead \in SummaryStores
  /\ nextId = Len(Lead) + 1
  /\ proc = [b \in Batches |-> IdleProc]
  /\ response = NoResponse

\* the bucket limit taken as exclusive
isHighIntent_above(doc) == doc.is_processed /\ doc.score > 70

\* the filters of lines 278-293
isAnyLead(doc) == TRUE
isProcessed(doc) == doc.is_processed
isHighIntent(doc) == doc.is_processed /\ doc.score >= 70
isMediumIntent(doc) == doc.is_processed /\ doc.score >= 40 /\ doc.score < 70
isLowIntent(doc) == doc.is_processed /\ doc.score < 40

\* lines 303-317: Math.round((count / of) * 100), 0 when of is 0
percentageOf(count, of) == IF of > 0 THEN RoundDiv(count * 100, of) ELSE 0

RECURSIVE sumOfScores(_)
sumOfScores(ids) ==
  IF ids = {} THEN 0
  ELSE LET id == CHOOSE x \in ids : TRUE
       IN Lead[id].score + sumOfScores(ids \ {id})

\* lines 296-299 and 336: $avg of the processed scores (0 when there is
\* none), to two decimals, in hundredths
summaryAverage ==
  LET ids == {id \in DOMAIN Lead : isProcessed(Lead[id])} IN
  IF ids = {} THEN 0 ELSE RoundDiv(sumOfScores(ids) * 100, Cardinality(ids))

\* lines 267-360, the collection staying as it is while the queries run.
\* recentLeads: the ids of the (at most 5) processed leads it lists
getScoringSummary ==
  LET \* Lead.countDocuments(filter), lines 278-293
      totalLeads ==
        Cardinality({id \in DOMAIN Lead : isAnyLead(Lead[id])})
      processedLeads ==
        Cardinality({id \in DOMAIN Lead : isProcessed(Lead[id])})
      highIntentLeads ==
        Cardinality({id \in DOMAIN Lead : isHighIntent(Lead[id])})
      mediumIntentLeads ==
        Cardinality({id \in DOMAIN Lead : isMediumIntent(Lead[id])})
      lowIntentLeads ==
        Cardinality({id \in DOMAIN Lead : isLowIntent(Lead[id])})
  IN
  /\ response' =
       [op |-> "getScoringSummary", status |-> "success",
        totals |-> [all |-> totalLeads, processed |-> processedLeads,
                    unprocessed |-> totalLeads - processedLeads,
                    processedPercentage |->
                      percentageOf(processedLeads, totalLeads)],
        scores |->
          [average |-> summaryAverage,
           high |-> [count |-> highIntentLeads,
                     percentage |->
                       percentageOf(highIntentLeads, processedLeads)],
           medium |-> [count |-> mediumIntentLeads,
                       percentage |->
                         percentageOf(mediumIntentLeads, processedLeads)],
           low |-> [count |-> lowIntentLeads,
                    percentage |->
                      percentageOf(lowIntentLeads, processedLeads)]],
        recentLeads |-> {id \in DOMAIN Lead : isProcessed(Lead[id])}]
  /\ UNCHANGED <<Lead, nextId, proc>>

NextSummary == getScoringSummary

SpecSummary == InitSummary /\ [][NextSummary]_vars

\* ------------------------------------------- calculateRuleScore, by itself
S_health   == <<"H","e","a","l","t","h">>
S_founder  == <<"F","o","u","n","d","e","r">>
S_owner    == <<"o","w","n","e","r">>
S_manager  == <<"S","a","l","e","s"," ","M","a","n","a","g","e","r">>
S_director == <<"D","i","r","e","c","t","o","r">>
S_headOf   == <<"H","e","a","d"," ","o","f"," ","I","T">>
S_vpFounder == <<"V","P",","," ","F","o","u","n","d","e","r">>
S_blank    == <<" ">>
S_fintech  == <<"F","i","n","T","e","c","h">>
S_saasTools == <<"B","2","B"," ","S","a","a","S"," ","t","o","o","l","s">>

\* the fields of a lead that calculateRuleScore reads
RoleSamples ==
  {<<>>, S_blank, S_ceo, S_founder, S_owner, S_vp, S_manager, S_director,
   S_headOf, S_vpFounder, S_dev}
IndustrySamples ==
  {<<>>, S_saas, S_retail, S_fintech, S_health, S_saasTools}
RuleLeads ==
  [name : {S_al, <<>>}, email : {S_mailA, <<>>}, role : RoleSamples,
   company : {S_acme, <<>>, S_blank}, industry : IndustrySamples]

\* the offers it is called with
RuleOffers ==
  [ideal_use_cases :
     {<<>>, <<S_b2bsaas>>, <<S_health>>, <<S_health, S_b2bsaas>>}]

\* a call of calculateRuleScore(lead, offer) that has not returned yet
RuleCalls ==
  [op : {"calculateRuleScore"}, status : {"called"},
   lead : RuleLeads, offer : RuleOffers]

InitRule ==
  /\ Lead = NoDocs
  /\ nextId = 1
  /\ proc = [b \in Batches |-> IdleProc]
  /\ response \in RuleCalls

\* the call returns
CalculateRuleScore ==
  /\ response.op = "calculateRuleScore"
  /\ response.status = "called"
  /\ response' = [op |-> "calculateRuleScore", status |-> "returned",
                  lead |-> response.lead, offer |-> response.offer,
                  result |-> ruleScoreFor(response.lead, response.offer)]
  /\ UNCHANGED <<Lead, nextId, proc>>

NextRule == CalculateRuleScore

SpecRule == InitRule /\ [][NextRule]_vars

\* --------------------------------------------------- getAIScore, by itself
S_HIGH     == <<"H","I","G","H">>
S_highly   == <<"h","i","g","h","l","y">>
S_Medium   == <<"M","e","d","i","u","m">>
S_med      == <<"m","e","d">>
S_hi       == <<"h","i">>
S_gh       == <<"g","h">>

\* what a reply is made of
ReplyWords ==
  {S_high, S_HIGH, S_highly, S_medium, S_Medium, S_low, S_med, S_hi, S_gh,
   S_blank}

RECURSIVE Concat(_)
\* the words of ws, one after the other
Concat(ws) == IF ws = <<>> THEN <<>> ELSE Head(ws) \o Concat(Tail(ws))

\* response.text(): the replies of up to MaxWords words
ReplyTexts == {Concat(ws) : ws \in UNION {[1..n -> ReplyWords] : n \in 0..MaxWords}}

\* a call of getAIScore(lead, offer) that has not returned yet, with what
\* the oracle is going to do
AICalls ==
  [op : {"getAIScore"}, status : {"called"},
   offer : DOMAIN Offers \cup {NullOffer},
   outcome : ReplyTexts \cup OracleFailures]

InitAI ==
  /\ Lead = NoDocs
  /\ nextId = 1
  /\ proc = [b \in Batches |-> IdleProc]
  /\ response \in AICalls

\* the call resolves (getAIScore never rejects: its whole body is in the try)
GetAIScore ==
  /\ response.op = "getAIScore"
  /\ response.status = "called"
  /\ response' = [op |-> "getAIScore", status |-> "returned",
                  offer |-> response.offer, outcome |-> response.outcome,
                  result |-> getAIScore(response.offer, response.outcome)]
  /\ UNCHANGED <<Lead, nextId, proc>>

NextAI == GetAIScore

SpecAI == InitAI /\ [][NextAI]_vars

\* ------------------------------------- uploadLeads: one record, by itself
S_mailSpace == <<"a"," ","b","@","x",".","i","o">>
S_mailTwoAt == <<"a","@","@","x",".","i","o">>
S_mailNoTld == <<"A","@","x",".">>
S_phone     == <<"5","5","5">>

Columns == {"name", "email", "role", "industry", "company", "linkedin", "phone"}
RequiredColumns == {"name", "email", "role", "industry"}

\* the header lines of the CSVs: every column, every column but one, and the
\* required ones only
Headers == {Columns, RequiredColumns} \cup {Columns \ {f} : f \in Columns}

\* the values of one line (the parser has trimmed them: trim: true, line 29)
RowValues ==
  [name : {S_al, <<>>},
   email : {S_mailAup, S_mailB, S_mailBad, S_mailSpace, S_mailTwoAt,
            S_mailNoTld, <<>>},
   role : {S_ceo, <<>>}, industry : {S_saas, <<>>},
   company : {S_acme, <<>>}, linkedin : {<<>>}, phone : {S_phone, <<>>}]

\* what parser.read() returns (columns: true): an object keyed by the header
RowRecords == {Restrict(r, h) : r \in RowValues, h \in Headers}

\* a record the 'readable' listener has read and not handled yet
RowCalls == [op : {"readRecord"}, status : {"read"}, record : RowRecords]

InitRow ==
  /\ Lead = NoDocs
  /\ nextId = 1
  /\ proc = [b \in Batches |-> IdleProc]
  /\ response \in RowCalls

\* lines 37-72 on one record: pushed on errors, or on results and then cast
\* by insertMany to the document it stores
ReadRecord ==
  LET record == response.record
      e == RowError(record)
  IN
  /\ response.op = "readRecord"
  /\ response.status = "read"
  /\ response' =
       IF e # ""
         THEN [op |-> "readRecord", status |-> "rejected", record |-> record,
               message |-> e]
         ELSE [op |-> "readRecord", status |-> "accepted", record |-> record,
               result |-> CanonicalLead(record),
               doc |-> NewLeadDoc(CanonicalLead(record))]
  /\ UNCHANGED <<Lead, nextId, proc>>

NextRow == ReadRecord

SpecRow == InitRow /\ [][NextRow]_vars

\* ------------------------------------------------------------------ claims
\* the invocation holds a selection it is working on
Selecting(b) == proc[b].pc \in {"score", "update", "commit"}

\* b takes a step
Steps(b) == proc'[b] # proc[b]

RECURSIVE SumScores(_, _)
SumScores(ids, store) ==
  IF ids = {} THEN 0
  ELSE LET id == CHOOSE x \in ids : TRUE
       IN store[id].score + SumScores(ids \ {id}, store)

\* the documents a step changes or adds in the committed collection
Committed == {id \in DOMAIN Lead' : id \notin DOMAIN Lead \/ Lead'[id] # Lead[id]}

\* C1: two processScores invocations that run at the same time never hold
\* selections with a lead in common.
C1_DisjointSelections ==
  \A b1, b2 \in Batches :
    (b1 # b2 /\ Selecting(b1) /\ Selecting(b2))
      => Ids(proc[b1].leads) \cap Ids(proc[b2].leads) = {}

\* C2: when the commit of a batch fails, the handler hands the commit error
\* to the caller, and every lead the batch selected is stored as it was
\* selected (unprocessed, with its previous score fields).
C2_CommitFailureReported ==
  [][\A b \in Batches :
       (proc[b].pc = "catch" /\ proc[b].error = "CommitError" /\ Steps(b))
         => /\ response' = ErrorResult(b, proc[b].offerId, "CommitError")
            /\ \A k \in DOMAIN proc[b].leads :
                 LET l == proc[b].leads[k] IN
                 l._id \in DOMAIN Lead' => Lead'[l._id] = l.doc]_vars

\* C3: after the failure of one selected lead has been caught, the batch goes
\* on with a transaction that can still be committed, so that it ends in
\* success for the leads that succeeded.
C3_LeadFailureIsolated ==
  \A b \in Batches :
    (Selecting(b) /\ proc[b].logged # <<>>) => proc[b].serverTxn = "open"

\* C4: every stored lead with is_processed = true has a non-empty
\* score_reason, a processed_at and an offer that references a stored offer.
C4_ProcessedLeadComplete ==
  \A id \in DOMAIN Lead :
    Lead[id].is_processed
      => /\ Lead[id].score_reason # <<>>
         /\ "processed_at" \in DOMAIN Lead[id]
         /\ "offer" \in DOMAIN Lead[id]
         /\ Lead[id].offer \in DOMAIN Offers

\* C5: every stored lead, and every lead written in an open transaction, has
\* an integer score between 0 and 100.
C5_ScoreInRange ==
  /\ \A id \in DOMAIN Lead : Lead[id].score \in 0..100
  /\ \A b \in Batches : \A id \in DOMAIN proc[b].writes :
       proc[b].writes[id].score \in 0..100

\* C5 witness: a lead scored by a committed batch next to one that is unscored
C5_Witness ==
  /\ \E id \in DOMAIN Lead : Lead[id].is_processed /\ Lead[id].score > 0
  /\ \E id \in DOMAIN Lead : ~Lead[id].is_processed /\ Lead[id].score = 0
  /\ \E b \in Batches : proc[b].pc = "rejected"

\* C6: a lead committed as processed is not selected by a processScores
\* invocation afterwards, and no step changes it (it can only be deleted).
C6_ProcessedOnce ==
  [][/\ \A b \in Batches :
          (proc[b].pc = "find" /\ proc'[b].pc = "score")
            => \A k \in DOMAIN proc'[b].leads :
                 LET id == proc'[b].leads[k]._id IN
                 id \in DOMAIN Lead => ~Lead[id].is_processed
     /\ \A id \in DOMAIN Lead \cap DOMAIN Lead' :
          Lead[id].is_processed => Lead'[id] = Lead[id]]_vars

\* C7: an invocation whose offerId matches no stored offer goes from the
\* lookup to the catch block and from there to a NotFoundError response with
\* its transaction aborted; it selects and scores nothing and its steps leave
\* the leads as they are.
C7_OfferNotFound ==
  [][\A b \in Batches :
       (proc[b].pc \in {"lookup", "catch"} /\ Steps(b)
          /\ proc[b].offerId \notin DOMAIN Offers)
         => /\ Lead' = Lead
            /\ proc[b].leads = <<>> /\ proc'[b].leads = <<>>
            /\ proc[b].ruleCalls = 0 /\ proc[b].aiCalls = 0
            /\ proc'[b].ruleCalls = 0 /\ proc'[b].aiCalls = 0
            /\ proc'[b].writes = NoDocs
            /\ IF proc[b].pc = "lookup"
                 THEN proc'[b].pc = "catch" /\ response' = NoResponse
                 ELSE /\ proc'[b].pc = "done"
                      /\ proc'[b].serverTxn = "aborted"
                      /\ response' = [op |-> "processScores", b |-> b,
                                      offerId |-> proc[b].offerId,
                                      status |-> "error",
                                      error |-> "NotFoundError"]]_vars

\* C7 witness: the not-found response, with an unprocessed lead in the store
C7_Witness ==
  /\ response.op = "processScores"
  /\ response.status = "error"
  /\ response.error = "NotFoundError"
  /\ \E id \in DOMAIN Lead : ~Lead[id].is_processed

C9_ResultMatchesCommit ==
  [][\A b \in Batches :
       (proc[b].pc = "commit" /\ proc'[b].pc = "done")
         => LET n == Cardinality(Committed)
                ids == response'.leadIds
            IN /\ response'.status = "success"
               /\ response'.processed = n
               /\ Len(ids) = n
               /\ {ids[k] : k \in DOMAIN ids} = Committed
               /\ \A id \in Committed : Lead'[id].is_processed
               /\ response'.totalScore = SumScores(Committed, Lead')
               /\ IF n = 0
                    THEN response'.averageScore = 0
                    ELSE LET d == response'.averageScore * n
                                    - 100 * SumScores(Committed, Lead')
                         IN 2 * d <= n /\ -2 * d <= n]_vars

Writes(b) ==
  /\ proc[b].pc = "update"
  /\ Len(proc'[b].processedLeads) > Len(proc[b].processedLeads)

C12_FinalScoreIsSum ==
  [][\A b \in Batches :
       Writes(b)
         => LET p == proc[b]
                lead == p.leads[p.i]
            IN proc'[b].writes[lead._id].score =
                 calculateRuleScore(lead.doc, p.offer).score
                   + getAIScore(p.offer, p.oracle).score]_vars

\* the rows of csv that validation rejects
Rejected(csv) == {k \in 1..Len(csv) : RowError(csv[k]) # ""}

\* the accepted rows of csv that the unique email index refuses
Collisions(csv) ==
  InsertMany(Parsed[csv].results, 1,
             [store |-> Lead, next |-> nextId, writeErrors |-> 0]).writeErrors

\* C13: the result of an upload of a CSV with R rows of which k fail
\* validation has totalRows = R, errors = k, one errorDetails entry per
\* failing row with its 1-based position in stream order, and a numeric
\* inserted with inserted <= R - k.
C13_UploadCounts ==
  [][\A csv \in CsvInputs :
       (uploadLeads("buffer", TRUE, csv) /\ response'.status = "success")
         => LET details == response'.errorDetails IN
            /\ response'.totalRows = Len(csv)
            /\ response'.errors = Cardinality(Rejected(csv))
            /\ Len(details) = Cardinality(Rejected(csv))
            /\ {details[j].row : j \in DOMAIN details} = Rejected(csv)
            /\ \A j1, j2 \in DOMAIN details :
                 j1 < j2 => details[j1].row < details[j2].row
            /\ response'.insertedDefined
            /\ response'.inserted <= Len(csv) - Cardinality(Rejected(csv))]_vars

\* C14: when d accepted rows collide on the unique email, the upload still
\* answers success, every accepted row's email is stored, and inserted is
\* the number of accepted rows minus d.
C14_DuplicatesDoNotBlock ==
  [][\A csv \in CsvInputs :
       (uploadLeads("buffer", TRUE, csv) /\ Collisions(csv) > 0)
         => /\ response'.status = "success"
            /\ \A k \in 1..Len(csv) \ Rejected(csv) :
                 toLowerCase(csv[k].email) \in Emails(Lead')
            /\ response'.insertedDefined
            /\ response'.inserted =
                 Len(csv) - Cardinality(Rejected(csv)) - Collisions(csv)]_vars

\* C15: an upload that passes the file-type check and whose stream parses
\* reaches the bulk insert and is answered with success, whatever its rows
\* are: through the route, and for the handler given the file's bytes.
C15_ErrorOnlyOnStreamFailure ==
  [][/\ \A req \in UploadRequests :
          (postUpload(req) /\ validateFileUpload(req) = "" /\ req.streamOk
             /\ response'.op = "uploadLeads")
            => response'.status = "success"
     /\ \A csv \in CsvInputs :
          uploadLeads("buffer", TRUE, csv) => response'.status = "success"]_vars

\* C16: an upload whose declared MIME type is not a CSV type is answered
\* with the error 'Only CSV files are allowed' by the check of the route,
\* and the handler is not reached (the case in which saving the file fails
\* first is left aside).
C16_NonCsvMimeRejected ==
  [][\A req \in UploadRequests :
       (postUpload(req) /\ req.files = "file"
          /\ req.mimetype \notin CsvMimeTypes
          /\ response'.op # "upload")
         => response' = [op |-> "validateFileUpload", status |-> "error",
                         error |-> "BadRequestError",
                         message |-> "Only CSV files are allowed"]]_vars

\* p is round(100 * count / of), halves up, and 0 when of is 0
IsRoundedPercentage(p, count, of) ==
  IF of = 0 THEN p = 0
  ELSE /\ 2 * of * p <= 200 * count + of
       /\ 200 * count + of < 2 * of * p + 2 * of

\* C17: the summary of a collection reports as high, medium and low the
\* numbers of processed leads with score >= 70, 40 <= score < 70 and
\* score < 40; the three add up to the processed count; each percentage is
\* round(100 * count / processed), 0 when nothing is processed.
C17_SummaryBuckets ==
  response.op = "getScoringSummary"
    => LET P == {id \in DOMAIN Lead : Lead[id].is_processed}
           n == Cardinality(P)
           sc == response.scores
       IN /\ response.totals.processed = n
          /\ sc.high.count = Cardinality({id \in P : Lead[id].score >= 70})
          /\ sc.medium.count =
               Cardinality({id \in P : Lead[id].score >= 40
                                         /\ Lead[id].score < 70})
          /\ sc.low.count = Cardinality({id \in P : Lead[id].score < 40})
          /\ sc.high.count + sc.medium.count + sc.low.count = n
          /\ IsRoundedPercentage(sc.high.percentage, sc.high.count, n)
          /\ IsRoundedPercentage(sc.medium.percentage, sc.medium.count, n)
          /\ IsRoundedPercentage(sc.low.percentage, sc.low.count, n)

\* C17 witness: processed scores 80, 45 and 20 reported as 1/1/1 at 33% each
C17_Witness ==
  /\ response.op = "getScoringSummary"
  /\ Len(Lead) = 3
  /\ \A id \in DOMAIN Lead : Lead[id].is_processed
  /\ {Lead[id].score : id \in DOMAIN Lead} = {80, 45, 20}
  /\ response.scores.high = [count |-> 1, percentage |-> 33]
  /\ response.scores.medium = [count |-> 1, percentage |-> 33]
  /\ response.scores.low = [count |-> 1, percentage |-> 33]
  /\ response.scores.average = 4833

\* a call of calculateRuleScore has returned
RuleCall == response.op = "calculateRuleScore" /\ response.status = "returned"

\* s, lower-cased, contains one of the words
ContainsAny(s, words) == \E w \in words : includes(toLowerCase(s), w)

C19_IndustryContribution ==
  RuleCall
    => LET lead == response.lead
           ucs == response.offer.ideal_use_cases
           ind == toLowerCase(lead.industry)
           exact ==
             \E k \in DOMAIN ucs :
               \/ includes(ind, toLowerCase(ucs[k]))
               \/ includes(toLowerCase(ucs[k]), ind)
           keywords ==
             {<<"t","e","c","h">>, <<"s","a","a","s">>,
              <<"s","o","f","t","w","a","r","e">>,
              <<"e","n","t","e","r","p","r","i","s","e">>,
              <<"s","t","a","r","t","u","p">>,
              <<"t","e","c","h","n","o","l","o","g","y">>}
           adjacent ==
             \E kw \in keywords :
               \/ includes(ind, kw)
               \/ \E k \in DOMAIN ucs : includes(toLowerCase(ucs[k]), kw)
           points ==
             IF lead.industry = <<>> \/ Len(ucs) = 0 THEN 0
             ELSE IF exact THEN 20
             ELSE IF adjacent THEN 10
             ELSE 0
       IN /\ IndustryOutcome(lead, response.offer).score = points
          /\ response.result.score =
               RoleOutcome(lead).score + points
                 + CompletenessOutcome(lead).score
          /\ (points = 20)
               <=> response.result.reason[2] = "Industry: Exact ICP match (+20)"
          /\ (points = 10)
               <=> response.result.reason[2]
                     = "Industry: Adjacent industry match (+10)"

\* C19 witness: the industry SaaS, contained in the use case B2B SaaS, scored
\* as an exact match
C19_Witness ==
  /\ RuleCall
  /\ response.lead.industry = S_saas
  /\ response.offer.ideal_use_cases = <<S_health, S_b2bsaas>>
  /\ response.result.reason[2] = "Industry: Exact ICP match (+20)"

AICall ==
  /\ response.op = "getAIScore"
  /\ response.status = "returned"
  /\ response.offer # NullOffer
  /\ response.outcome \notin OracleFailures

\* word occurs in text when letter case is ignored
Occurs(word, text) ==
  \E k \in 1..Len(text) :
    /\ k + Len(word) - 1 <= Len(text)
    /\ \A j \in 1..Len(word) : toLowerCaseChar(text[k + j - 1]) = word[j]

\* C21: whatever text the oracle replies with, getAIScore returns the
\* sub-score 50 when the text, letter case ignored, contains "high",
\* otherwise 30 when it contains "medium", otherwise 10; "high" wins when
\* both words occur; and the sub-score getAIScore returns (the oracle's
\* failures included) is always one of 10, 30, 50.
C21_AIScoreMapping ==
  /\ (response.op = "getAIScore" /\ response.status = "returned")
       => response.result.score \in {10, 30, 50}
  /\ AICall =>
       LET text == response.outcome
           score == response.result.score
           high == Occurs(<<"h","i","g","h">>, text)
           medium == Occurs(<<"m","e","d","i","u","m">>, text)
       IN /\ high => score = 50
          /\ (~high /\ medium) => score = 30
          /\ (~high /\ ~medium) => score = 10

\* a reply with both words, "medium" first, scored 50
C21_Witness ==
  /\ AICall
  /\ response.outcome = S_Medium \o S_HIGH
  /\ response.result.score = 50

\* the record of the call has the column f, and it is not empty
HasValue(record, f) == f \in DOMAIN record /\ record[f] # <<>>

\* s is local@domain.tld: three non-empty parts without blanks or "@"
IsLocalAtDomainTld(s) ==
  \E a \in 2..Len(s) : \E d \in (a + 2)..(Len(s) - 1) :
    /\ s[a] = "@"
    /\ s[d] = "."
    /\ \A k \in (1..Len(s)) \ {a, d} : s[k] # " "
    /\ \A k \in (1..Len(s)) \ {a} : s[k] # "@"

Handled(p) == Len(p.processedLeads) + Len(p.logged)

\* C23: within one processScores batch the leads are handled one at a time
\* in selection order.  For the lead at index i the rule score comes first,
\* then the oracle call, then the write; the oracle is called at most once
\* for a selected lead (no retry); and the oracle call for the next lead
\* starts only after the write of the lead before it has completed or
\* failed.
C23_OneLeadAtATime ==
  [][\A b \in Batches :
       LET p == proc[b]
           q == proc'[b]
       IN
       \* before the rule score of lead i: i-1 leads are done with, each was
       \* rule-scored once and sent to the oracle at most once
       /\ p.pc = "score" =>
            /\ p.i \in DOMAIN p.leads
            /\ Handled(p) = p.i - 1
            /\ p.ruleCalls = p.i - 1
            /\ p.aiCalls <= p.i - 1
       \* the rule score and the oracle call of lead i in one go; without an
       \* oracle call only when the lead is given up
       /\ (p.pc = "score" /\ Steps(b)) =>
            /\ q.ruleCalls = p.ruleCalls + 1
            /\ \/ /\ q.pc = "update"
                  /\ q.i = p.i
                  /\ q.aiCalls = p.aiCalls + 1
                  /\ Handled(q) = Handled(p)
               \/ /\ q.pc \in {"score", "commit"}
                  /\ q.i = p.i + 1
                  /\ q.aiCalls = p.aiCalls
                  /\ q.logged = Append(p.logged, p.leads[p.i]._id)
       \* the oracle is called from nowhere else
       /\ q.aiCalls > p.aiCalls => p.pc = "score"
       \* the write of lead i: it completes or fails, and only then the loop
       \* moves to lead i+1
       /\ (p.pc = "update" /\ Steps(b)) =>
            /\ p.ruleCalls = p.i
            /\ q.i = p.i + 1
            /\ q.aiCalls = p.aiCalls
            /\ q.ruleCalls = p.ruleCalls
            /\ q.pc = IF p.i = Len(p.leads) THEN "commit" ELSE "score"
            /\ \/ /\ Len(q.processedLeads) = Len(p.processedLeads) + 1
                  /\ q.processedLeads[Len(q.processedLeads)]._id = p.leads[p.i]._id
                  /\ q.logged = p.logged
               \/ /\ q.logged = Append(p.logged, p.leads[p.i]._id)
                  /\ q.processedLeads = p.processedLeads
       \* the commit comes after the last lead
       /\ p.pc = "commit" => Handled(p) = Len(p.leads)
  ]_vars

\* the second lead of a selection of two at its write, the oracle called
\* twice so far
C23_Witness ==
  \E b \in Batches :
    /\ proc[b].pc = "update"
    /\ Len(proc[b].leads) = 2
    /\ proc[b].i = 2
    /\ proc[b].aiCalls = 2
    /\ Handled(proc[b]) = 1

\* where an invocation is: 1 SELECTING (offer lookup, find), 2 SCORING (the
\* loop), 3 COMMITTING (commitTransaction, and the catch block after it or
\* after a failed lookup), 4 ended
Phase(pc) ==
  CASE pc = "idle" -> 0
    [] pc \in {"lookup", "find"} -> 1
    [] pc \in {"score", "update"} -> 2
    [] pc \in {"commit", "catch"} -> 3
    [] pc \in {"done", "rejected"} -> 4

\* C24: a processScores run goes through selecting, scoring and committing
\* in that order and never back, and when it has ended (every oracle and
\* storage call having returned or failed) it is in exactly one terminal
\* state: its transaction is committed, or it is aborted, for the session
\* and for the store alike, and the session is closed (not left open).
C24_OrderedPhasesOneEnd ==
  [][\A b \in Batches :
       LET p == proc[b]
           q == proc'[b]
       IN
       /\ Phase(q.pc) >= Phase(p.pc)
       /\ (Phase(q.pc) = 4 /\ Phase(p.pc) # 4) =>
            /\ q.sessionEnded
            /\ \/ /\ q.txnState = "TRANSACTION_COMMITTED"
                  /\ q.serverTxn = "committed"
               \/ /\ q.txnState = "TRANSACTION_ABORTED"
                  /\ q.serverTxn = "aborted"
  ]_vars

HandsError(b) ==
  /\ response'.op = "processScores"
  /\ response'.status = "error"
  /\ response'.b = b
  /\ Steps(b)

\* C26: when processScores hands an error to the caller and not a success
\* response, none of the lead writes of that batch is committed: no error is
\* reported once the transaction has been committed.  This includes the
\* batch one of whose selected leads deleteLead removed while it was
\* running: the update of that lead yields no document for the result, and
\* the batch does not come to report an error after a commit.
C26_NoErrorAfterCommit ==
  [][\A b \in Batches :
       LET p == proc[b]
           q == proc'[b]
       IN
       \* an error goes with an aborted transaction and an untouched
       \* collection
       /\ HandsError(b) =>
            /\ p.serverTxn # "committed"
            /\ q.serverTxn = "aborted"
            /\ Lead' = Lead
       \* the step that commits answers with the success response, and the
       \* invocation does nothing after it
       /\ (q.serverTxn = "committed" /\ Steps(b)) =>
            /\ response'.op = "processScores"
            /\ response'.status = "success"
            /\ response'.b = b
       /\ p.serverTxn = "committed" => q = p
       \* the write to a selected lead that is gone from the collection
       \* adds no document to processedLeads
       /\ (p.pc = "update" /\ Steps(b) /\ p.leads[p.i]._id \notin DOMAIN Lead) =>
            /\ q.processedLeads = p.processedLeads
            /\ q.logged = Append(p.logged, p.leads[p.i]._id)
  ]_vars

\* an error handed to the caller of one invocation, while the other
\* invocation has failed to commit after a selected lead was deleted under
\* it and its write failed
C26_Witness ==
  \E b \in Batches, c \in Batches :
    /\ b # c
    /\ response.op = "processScores"
    /\ response.status = "error"
    /\ response.b = b
    /\ proc[b].serverTxn = "aborted"
    /\ proc[c].pc = "catch"
    /\ proc[c].serverTxn = "aborted"
    /\ proc[c].processedLeads = <<>>
    /\ \E k \in DOMAIN proc[c].logged : proc[c].logged[k] \notin DOMAIN Lead

====
